---- MODULE Spec2Model ----
(***************************************************************************)
(* The upstream list engine of src/libutil/upstream.c: one upstream list   *)
(* (struct upstream_list) with its upstreams (struct upstream), the        *)
(* context it was created from (struct upstream_ctx), the libev timer of   *)
(* every upstream, the DNS queries in flight and the watcher events the    *)
(* list delivers.  Every C function that changes state is an operator on a *)
(* record of the program state; every public operation, timer callback and *)
(* DNS callback is one action.                                             *)
(***************************************************************************)
EXTENDS Integers, Sequences, FiniteSets, TLC

\* ---------------------------------------------------------------- bounds
\* Upstreams that may be added to the list.
MaxUps == 2
\* Upstreams that may be added to a list picked from by hash.
MaxUpsHashed == 3
\* Threads that call into the library at once.
MaxThreads == 2
\* Last tick of the clock rspamd_get_ticks reads.
MaxTime == 3
\* Cap of up->errors (Fail is not called on an upstream that reached it).
MaxErrCount == 3
\* Cap of up->checked (Get is not called once an upstream reached it).
MaxChecked == 2
\* Cap of the per-address error counter.
MaxAddrErrors == 1

\* ------------------------------------------------- limits of the list
\* ls->limits as set through rspamd_upstreams_set_limits.
max_errors == 2
error_time == 2
revive_time == 1

\* (guint)-1, the initial min_checked of the round-robin scan.
G_MAXUINT == -1
\* G_MAXUINT / 2
G_MAXUINT_HALF == 2147483647
\* up->active_idx of an upstream that is not alive.
NOT_ALIVE == -1

U == 1..MaxUpsHashed
\* The NULL upstream pointer.
None == 0

Rotations == {"undef", "random", "hashed", "round_robin", "master_slave",
              "sequential"}

\* The one address the parser attaches to a new upstream.
ParsedAddr == [af |-> "inet", ip |-> 1, port |-> 25]

VARIABLES
    hasCtx,        \* ls->ctx != NULL
    configured,    \* ctx->configured (event loop attached)
    res,           \* ctx->res != NULL
    now,           \* rspamd_get_ticks
    crashed,       \* the process aborted (failed g_assert, wild pointer)
    destroyed,     \* rspamd_upstreams_destroy ran: the list is freed, and
                   \* up->ls is NULL in the upstreams that outlive it
    ups,           \* ls->ups
    alive,         \* ls->alive
    cur_elt,       \* ls->cur_elt
    rot_alg,       \* ls->rot_alg
    weight, cur_weight, errors, checked, dns_requests, active_idx,
    last_fail,     \* fields of struct upstream, by upstream
    ev,            \* the upstream's timer: "stopped", "lazy", "revive"
    noresolve,     \* flags & RSPAMD_UPSTREAM_FLAG_NORESOLVE
    refcount,      \* up->ref.refcount
    addrs,         \* up->addrs.addr: sequence of [addr, errors]
    addrs_cur,     \* up->addrs.cur
    new_addrs,     \* up->new_addrs
    scope,         \* the part of the input space this run draws from
    events,        \* watcher calls made by the last operation
    last,          \* the last operation and what it returned
    ej_pending,    \* ejected by Fail, not revived by timer, no Get since
    failHist,      \* timestamps of the latest Fail calls on an alive upstream
    winFresh,      \* failHist starts with the Fail that found errors = 0
    offline,       \* upstreams whose latest OFFLINE or ONLINE call was
                   \* OFFLINE (followed in the "clock" scope)
    locks          \* by thread: where it stands inside a call that takes two
                   \* mutexes, and the upstream (or index of ups) it is at

prog == <<hasCtx, configured, res, crashed, destroyed, ups, alive, cur_elt,
          rot_alg,
          weight, cur_weight, errors, checked, dns_requests, active_idx,
          last_fail, ev, noresolve, refcount, addrs, addrs_cur, new_addrs>>
hist == <<scope, events, last, ej_pending, failHist, winFresh, offline>>
vars == <<prog, now, hist, locks>>

Threads == 1..MaxThreads
\* A thread outside any call.
Idle == [pc |-> "idle", at |-> 0]

\* The program state as one record, the operand of the C functions below.
Cur ==
    [hasCtx |-> hasCtx, configured |-> configured, res |-> res,
     crashed |-> crashed, destroyed |-> destroyed, ups |-> ups,
     alive |-> alive, cur_elt |-> cur_elt, rot_alg |-> rot_alg,
     weight |-> weight, cur_weight |-> cur_weight,
     errors |-> errors, checked |-> checked, dns_requests |-> dns_requests,
     active_idx |-> active_idx, last_fail |-> last_fail, ev |-> ev,
     noresolve |-> noresolve, refcount |-> refcount, addrs |-> addrs,
     addrs_cur |-> addrs_cur, new_addrs |-> new_addrs, events |-> <<>>]

RECURSIVE Transitions(_, _, _)
\* The upstreams last called OFFLINE after the watcher calls evs[i..],
\* when they were off before.
Transitions(off, evs, i) ==
    IF i > Len(evs) THEN off
    ELSE Transitions(
             CASE evs[i].event = "OFFLINE" -> off \cup {evs[i].up}
               [] evs[i].event = "ONLINE" -> off \ {evs[i].up}
               [] OTHER -> off,
             evs, i + 1)

Commit(s) ==
    /\ offline' = IF scope = "clock" THEN Transitions(offline, s.events, 1)
                  ELSE offline
    /\ hasCtx' = s.hasCtx /\ configured' = s.configured /\ res' = s.res
    /\ crashed' = s.crashed /\ destroyed' = s.destroyed
    /\ ups' = s.ups /\ alive' = s.alive
    /\ cur_elt' = s.cur_elt /\ rot_alg' = s.rot_alg /\ weight' = s.weight
    /\ cur_weight' = s.cur_weight /\ errors' = s.errors
    /\ checked' = s.checked /\ dns_requests' = s.dns_requests
    /\ active_idx' = s.active_idx /\ last_fail' = s.last_fail /\ ev' = s.ev
    /\ noresolve' = s.noresolve /\ refcount' = s.refcount
    /\ addrs' = s.addrs /\ addrs_cur' = s.addrs_cur
    /\ new_addrs' = s.new_addrs /\ events' = s.events

\* The watcher call w->func (up, event, count, ud) of a watcher subscribed
\* to every event.
Watch(s, e, u, c) ==
    [s EXCEPT !.events = Append(@, [event |-> e, up |-> u, count |-> c])]

IsAlive(u) == \E i \in 1..Len(alive) : alive[i] = u

IsMember(u) == \E i \in 1..Len(ups) : ups[i] = u

\* The operations `last` tells apart; any other is recorded as "-" (what
\* Fail and Ok did shows in the watcher calls they made).
Noted == {"Init", "Get", "Revive"}

\* The record of an operation, kept in `last`.
Op(name, u) ==
    [op |-> IF name \in Noted THEN name ELSE "-",
     up |-> IF name \in Noted THEN u ELSE 0,
     ret |-> 0, acted |-> FALSE]

\* ------------------------------------------------------------ addresses
\* rspamd_upstream_af_to_weight
rspamd_upstream_af_to_weight(a) ==
    CASE a.af = "unix" -> 2
      [] a.af = "inet" -> 1
      [] OTHER -> 0

\* The elements of q whose address has family weight w, in the order of q.
OfWeight(q, w) ==
    SelectSeq(q, LAMBDA e : rspamd_upstream_af_to_weight(e.addr) = w)

\* g_ptr_array_sort with rspamd_upstream_addr_sort_func: by family weight,
\* greatest first; elements of one weight keep their order.
SortAddrs(q) == OfWeight(q, 2) \o OfWeight(q, 1) \o OfWeight(q, 0)

\* rspamd_inet_address_compare (a, b, FALSE) == 0: same family and bytes,
\* ports not compared.
SameAddr(a, b) == a.af = b.af /\ a.ip = b.ip

\* The staged address always taken as a new one.
NewAddrElt_fresh(old, staged, port, reset_errors) ==
    [addr |-> [staged EXCEPT !.port = port], errors |-> 0]

\* One staged address turned into an element of the new sequence.
NewAddrElt(old, staged, port, reset_errors) ==
    LET a == [staged EXCEPT !.port = port]
        hits == {i \in 1..Len(old) : SameAddr(old[i].addr, a)}
    IN  IF hits = {}
        THEN [addr |-> a, errors |-> 0]
        ELSE LET i == CHOOSE j \in hits : \A h \in hits : j <= h
             IN  [addr |-> a,
                  errors |-> IF reset_errors THEN 0 ELSE old[i].errors]

\* rspamd_upstream_update_addrs that replaces the addresses whatever is
\* staged.
rspamd_upstream_update_addrs_empty(s, u, reset_errors) ==
    LET old == s.addrs[u]
        st == s.new_addrs[u]
        s1 == IF Len(old) > 0
              THEN LET port == old[1].addr.port
                       nw == [i \in 1..Len(st) |->
                                 NewAddrElt(old, st[i], port, reset_errors)]
                   IN  [s EXCEPT !.addrs[u] = SortAddrs(nw),
                                 !.addrs_cur[u] = 0]
              ELSE s
    IN  [s1 EXCEPT !.new_addrs[u] = <<>>]

\* rspamd_upstream_update_addrs that leaves addrs.cur where it was.
rspamd_upstream_update_addrs_cur(s, u, reset_errors) ==
    LET old == s.addrs[u]
        st == s.new_addrs[u]
        s1 == IF Len(old) > 0 /\ Len(st) > 0
              THEN LET port == old[1].addr.port
                       nw == [i \in 1..Len(st) |->
                                 NewAddrElt(old, st[i], port, reset_errors)]
                   IN  [s EXCEPT !.addrs[u] = SortAddrs(nw)]
              ELSE s
    IN  [s1 EXCEPT !.new_addrs[u] = <<>>]

\* rspamd_upstream_update_addrs: the staged addresses replace the current
\* ones; reset_errors is the outcome of the 10% draw.
rspamd_upstream_update_addrs(s, u, reset_errors) ==
    LET old == s.addrs[u]
        st == s.new_addrs[u]
        s1 == IF Len(old) > 0 /\ Len(st) > 0
              THEN LET port == old[1].addr.port
                       nw == [i \in 1..Len(st) |->
                                 NewAddrElt(old, st[i], port, reset_errors)]
                   IN  [s EXCEPT !.addrs[u] = SortAddrs(nw),
                                 !.addrs_cur[u] = 0]
              ELSE s
    IN  [s1 EXCEPT !.new_addrs[u] = <<>>]

RECURSIVE rspamd_upstream_addr_next(_, _)
\* rspamd_upstream_addr_next: addrs.cur moves to the next address, and on
\* while that one has more errors than the one before it; the modulo by an
\* empty sequence's length aborts.
rspamd_upstream_addr_next(s, u) ==
    LET n == Len(s.addrs[u])
        idx == s.addrs_cur[u]
        next_idx == (idx + 1) % n
        s1 == [s EXCEPT !.addrs_cur[u] = next_idx]
    IN  IF n = 0 THEN [s EXCEPT !.crashed = TRUE]
        ELSE IF s.addrs[u][next_idx + 1].errors > s.addrs[u][idx + 1].errors
             THEN rspamd_upstream_addr_next(s1, u)
             ELSE s1

\* ------------------------------------------------------------- activation
\* Whether rspamd_upstream_set_active arms the lazy-resolve timer.
StartsLazy(s, u) == s.hasCtx /\ s.configured /\ ~s.noresolve[u]

\* rspamd_upstream_set_active that takes a reference for the lazy-resolve
\* timer it starts.
rspamd_upstream_set_active_ref(s, u) ==
    LET s1 == [s EXCEPT !.alive = Append(@, u),
                        !.active_idx[u] = Len(s.alive) + 1 - 1]
    IN  IF StartsLazy(s1, u)
        THEN [s1 EXCEPT !.ev[u] = "lazy", !.refcount[u] = @ + 1]
        ELSE s1

\* rspamd_upstream_set_active
rspamd_upstream_set_active(s, u) ==
    LET s1 == [s EXCEPT !.alive = Append(@, u),
                        !.active_idx[u] = Len(s.alive) + 1 - 1]
    IN  IF StartsLazy(s1, u) THEN [s1 EXCEPT !.ev[u] = "lazy"] ELSE s1

\* rspamd_upstream_resolve_addrs that asks again while replies are awaited.
rspamd_upstream_resolve_addrs_again(s, u, made) ==
    IF s.res /\ s.configured /\ ~s.noresolve[u]
    THEN IF s.destroyed THEN [s EXCEPT !.crashed = TRUE]
         ELSE [s EXCEPT !.dns_requests[u] = @ + made,
                        !.refcount[u] = @ + made]
    ELSE s

\* rspamd_upstream_resolve_addrs; made is the number of the two queries
\* (A, AAAA) that rdns_make_request_full accepted.  The arguments of the
\* query are read through ls, which is NULL once the list is destroyed.
rspamd_upstream_resolve_addrs(s, u, made) ==
    IF s.res /\ s.configured /\ s.dns_requests[u] = 0 /\ ~s.noresolve[u]
    THEN IF s.destroyed THEN [s EXCEPT !.crashed = TRUE]
         ELSE [s EXCEPT !.dns_requests[u] = @ + made,
                        !.refcount[u] = @ + made]
    ELSE s

\* rspamd_upstream_dtor: the timer is stopped, the upstream leaves the queue
\* of its context and its memory is freed.
rspamd_upstream_dtor(s, u) ==
    [s EXCEPT !.ev[u] = "stopped", !.weight[u] = 0, !.cur_weight[u] = 0,
              !.errors[u] = 0, !.checked[u] = 0, !.dns_requests[u] = 0,
              !.active_idx[u] = 0, !.last_fail[u] = 0,
              !.noresolve[u] = FALSE, !.addrs[u] = <<>>,
              !.addrs_cur[u] = 0, !.new_addrs[u] = <<>>]

\* REF_RELEASE (up): the destructor runs when the last reference goes.
REF_RELEASE(s, u) ==
    LET s1 == [s EXCEPT !.refcount[u] = @ - 1]
    IN  IF s1.refcount[u] = 0 THEN rspamd_upstream_dtor(s1, u) ELSE s1

\* ctx->upstreams: the upstreams that exist, in the order they were added.
CtxUpstreams(s) ==
    SelectSeq([u \in U |-> u], LAMBDA u : s.refcount[u] > 0)

RECURSIVE ReresolveFrom(_, _, _)
\* The loop of rspamd_upstream_reresolve over the upstreams of the context
\* from the i-th on: each is retained, resolved and released.
ReresolveFrom(s, i, made) ==
    IF i > Len(CtxUpstreams(s)) \/ s.crashed THEN s
    ELSE ReresolveFrom(
             rspamd_upstream_resolve_addrs(s, CtxUpstreams(s)[i], made),
             i + 1, made)

\* rspamd_upstream_reresolve
rspamd_upstream_reresolve(s, made) == ReresolveFrom(s, 1, made)

\* g_ptr_array_remove_index (array, i): nothing is removed when i is not an
\* index of the array.
RemoveIndex(al, i) ==
    IF i >= 0 /\ i < Len(al)
    THEN SubSeq(al, 1, i) \o SubSeq(al, i + 2, Len(al))
    ELSE al

\* RepairIndices that leaves the indices as they were.
RepairIndices_stale(al, idx) == idx

\* The loop of rspamd_upstream_set_inactive that rewrites active_idx of
\* every upstream left in alive.
RepairIndices(al, idx) ==
    [u \in U |-> IF \E i \in 1..Len(al) : al[i] = u
                 THEN (CHOOSE i \in 1..Len(al) :
                          al[i] = u /\ \A j \in (i+1)..Len(al) : al[j] # u) - 1
                 ELSE idx[u]]

\* The timer after rspamd_upstream_set_inactive: the revive timer is
\* initialised always and started only in a configured context.
ReviveTimer(s) == IF s.configured THEN "revive" ELSE "stopped"

\* rspamd_upstream_set_inactive
rspamd_upstream_set_inactive(s, u, made) ==
    LET al == RemoveIndex(s.alive, s.active_idx[u])
        s1 == [s EXCEPT !.alive = al,
                        !.active_idx =
                            RepairIndices(al, [@ EXCEPT ![u] = NOT_ALIVE])]
        s2 == IF s1.hasCtx
              THEN LET r == rspamd_upstream_resolve_addrs(s1, u, made)
                   IN  [r EXCEPT !.refcount[u] = @ + 1,
                                 !.ev[u] = ReviveTimer(r)]
              ELSE s1
    IN  Watch(s2, "OFFLINE", u, s2.errors[u])

\* The rate test that takes no failure at the timestamp of the first as one
\* over the limit.
RateExceeded_later(errs, dt) ==
    IF dt > 0 THEN errs * error_time > max_errors * dt ELSE FALSE

\* The rate test that leaves out the failure being counted.
RateExceeded_late(errs, dt) ==
    IF dt > 0 THEN (errs - 1) * error_time > max_errors * dt ELSE TRUE

\* ------------------------------------------------------- failure and success
\* error_rate > max_error_rate in rspamd_upstream_fail, for errs errors and
\* dt = sec_cur - sec_last >= 0.  With dt > 0 the rates are errs / dt and
\* max_errors / error_time, compared here without the division; with dt = 0
\* the code compares 1 with 0.
RateExceeded(errs, dt) ==
    IF dt > 0 THEN errs * error_time > max_errors * dt ELSE TRUE

\* The test of the length of ups that lets a list of one eject.
CanEject_one(n) == n >= 1

\* up->ls->ups->len > 1: the upstream may be removed from the active list.
CanEject(n) == n > 1

\* addr_elt->errors++ on the current address, when up->addrs.addr is set.
AddrFailure(s, u) ==
    IF Len(s.addrs[u]) > 0
    THEN [s EXCEPT !.addrs[u][s.addrs_cur[u] + 1].errors = @ + 1]
    ELSE s

\* The branch that re-resolves a lone upstream after revive_time whatever
\* its error rate.
FailAgain_any(s, u, t, made) ==
    LET s1 == [s EXCEPT !.errors[u] = @ + 1]
        s2 == Watch(s1, "FAILURE", u, s1.errors[u])
    IN  IF CanEject(Len(s2.ups))
        THEN IF RateExceeded(s2.errors[u], t - s2.last_fail[u])
             THEN rspamd_upstream_set_inactive(
                      [s2 EXCEPT !.errors[u] = 0], u, made)
             ELSE s2
        ELSE IF t - s2.last_fail[u] > revive_time
             THEN rspamd_upstream_resolve_addrs(
                      [s2 EXCEPT !.errors[u] = 0], u, made)
             ELSE s2

\* The branch of rspamd_upstream_fail taken when up->errors > 0 and
\* sec_cur >= sec_last.
FailAgain(s, u, t, made) ==
    LET s1 == [s EXCEPT !.errors[u] = @ + 1]
        s2 == Watch(s1, "FAILURE", u, s1.errors[u])
    IN  IF RateExceeded(s2.errors[u], t - s2.last_fail[u])
        THEN IF CanEject(Len(s2.ups))
             THEN rspamd_upstream_set_inactive(
                      [s2 EXCEPT !.errors[u] = 0], u, made)
             ELSE IF t - s2.last_fail[u] > revive_time
                  THEN rspamd_upstream_resolve_addrs(
                           [s2 EXCEPT !.errors[u] = 0], u, made)
                  ELSE s2
        ELSE s2

\* rspamd_upstream_fail at time t (sec_cur).
rspamd_upstream_fail(s, u, addr_failure, t, made) ==
    IF s.hasCtx /\ s.active_idx[u] # NOT_ALIVE
    THEN LET s1 == IF s.errors[u] = 0
                   THEN Watch([s EXCEPT !.last_fail[u] = t, !.errors[u] = 1],
                              "FAILURE", u, 1)
                   ELSE IF t >= s.last_fail[u]
                        THEN FailAgain(s, u, t, made)
                        ELSE s
         IN  IF addr_failure THEN AddrFailure(s1, u) ELSE s1
    ELSE s

\* rspamd_upstream_ok that keeps the count.
OkErrors_kept(e) == e

\* up->errors after rspamd_upstream_ok touched the upstream.
OkErrors(e) == 0

\* rspamd_upstream_ok
rspamd_upstream_ok(s, u) ==
    IF s.errors[u] > 0 /\ s.active_idx[u] # NOT_ALIVE
    THEN LET s1 == [s EXCEPT !.errors[u] = OkErrors(@)]
             s2 == IF Len(s1.addrs[u]) > 0
                   THEN [s1 EXCEPT !.addrs[u][s1.addrs_cur[u] + 1].errors = 0]
                   ELSE s1
         IN  Watch(s2, "SUCCESS", u, 0)
    ELSE s

\* ------------------------------------------------------ timers and DNS
\* g_assert (up->ref.refcount > 1); REF_RELEASE (up): the process aborts
\* when the assertion fails.
AssertRelease(s, u) ==
    IF s.refcount[u] > 1
    THEN [s EXCEPT !.refcount[u] = @ - 1]
    ELSE [s EXCEPT !.crashed = TRUE]

\* rspamd_upstream_revive_cb: the upstream is made active when up->ls is
\* set, that is when the list is not destroyed.
rspamd_upstream_revive_cb(s, u) ==
    LET s1 == [s EXCEPT !.ev[u] = "stopped"]
    IN  AssertRelease(
            IF s.destroyed THEN s1 ELSE rspamd_upstream_set_active(s1, u), u)

\* rspamd_upstream_lazy_resolve_cb: resolves and re-arms the timer when
\* up->ls is set.
rspamd_upstream_lazy_resolve_cb(s, u, made) ==
    LET s1 == [s EXCEPT !.ev[u] = "stopped"]
    IN  IF s.destroyed THEN s1
        ELSE [rspamd_upstream_resolve_addrs(s1, u, made)
                  EXCEPT !.ev[u] = "lazy"]

\* rspamd_upstream_dns_cb: entries are the A and AAAA entries of a reply
\* with code RDNS_RC_NOERROR (none for any other code), each prepended to
\* new_addrs.
rspamd_upstream_dns_cb(s, u, entries, reset_errors) ==
    LET staged == [i \in 1..Len(entries) |->
                       entries[Len(entries) + 1 - i]] \o s.new_addrs[u]
        s1 == [s EXCEPT !.new_addrs[u] = staged, !.dns_requests[u] = @ - 1]
        s2 == IF s1.dns_requests[u] = 0
              THEN rspamd_upstream_update_addrs(s1, u, reset_errors)
              ELSE s1
    IN  REF_RELEASE(s2, u)

\* The loop of rspamd_upstreams_library_config over ctx->upstreams: an
\* upstream without an active timer that resolves gets the lazy timer.
ConfigTimer(s, u) ==
    IF s.ev[u] = "stopped" /\ (\E i \in 1..Len(s.ups) : s.ups[i] = u)
       /\ ~s.noresolve[u]
    THEN "lazy" ELSE s.ev[u]

\* rspamd_upstreams_library_config with an event loop; resolver tells
\* whether a resolver is given.  The limits it sets are those of the
\* context, which a list copies when it is created.
rspamd_upstreams_library_config(s, resolver) ==
    LET s1 == [s EXCEPT !.res = resolver, !.configured = TRUE]
    IN  IF resolver
        THEN [s1 EXCEPT !.ev = [u \in U |-> ConfigTimer(s1, u)]]
        ELSE s1

\* ------------------------------------------------------ consistent hash
\* A guint64 is the sequence of its eight bytes, least significant first.
\* 2862933555777941757ULL + 1, the factor of `key *= ...`.
HASH_FACTOR == <<254, 176, 176, 135, 230, 46, 187, 39>>

\* The largest gint, 2^31 - 1.
INT_MAX == 2147483647

RECURSIVE ColSum(_, _, _, _)
\* sum of a[i] * m[k + 1 - i] for i in 1..k, from i on
ColSum(a, m, k, i) ==
    IF i > k THEN 0 ELSE a[i] * m[k + 1 - i] + ColSum(a, m, k, i + 1)

RECURSIVE MulBytes(_, _, _, _)
\* bytes k..8 of a * m modulo 2^64, given the carry into byte k
MulBytes(a, m, k, carry) ==
    IF k > 8 THEN <<>>
    ELSE LET col == ColSum(a, m, k, 1) + carry
         IN  <<col % 256>> \o MulBytes(a, m, k + 1, col \div 256)

\* key * m as guint64
Mul64(a, m) == MulBytes(a, m, 1, 0)

\* key >> 33, a number below 2^31
Shr33(k) == (k[5] \div 2) + k[6] * 128 + k[7] * 32768 + k[8] * 8388608

RECURSIVE TimesDiv(_, _, _, _, _)
\* floor (c * r / d) for 0 <= r < d, acc < d, without leaving the gint range
TimesDiv(c, r, d, acc, cnt) ==
    IF c = 0 THEN cnt
    ELSE IF acc >= d - r
         THEN TimesDiv(c - 1, r, d, acc - (d - r), cnt + 1)
         ELSE TimesDiv(c - 1, r, d, acc + r, cnt)

\* j = (b + 1) * (double)(1ULL << 31) / (double)((key >> 33) + 1ULL), cut
\* to nbuckets when it is nbuckets or more; d0 is key >> 33.
JumpNext(b, d0, nbuckets) ==
    IF d0 = INT_MAX THEN IF b + 1 < nbuckets THEN b + 1 ELSE nbuckets
    ELSE LET d == d0 + 1
             q0 == INT_MAX \div d
             r0 == INT_MAX % d
             q == IF r0 + 1 = d THEN q0 + 1 ELSE q0
             r == IF r0 + 1 = d THEN 0 ELSE r0 + 1
         IN  IF q >= nbuckets THEN nbuckets
             ELSE LET j == (b + 1) * q + TimesDiv(b + 1, r, d, 0, 0)
                  IN  IF j < nbuckets THEN j ELSE nbuckets

RECURSIVE JumpLoop(_, _, _, _)
\* the while loop of rspamd_consistent_hash
JumpLoop(key, nbuckets, b, j) ==
    IF j < nbuckets
    THEN LET k2 == Mul64(key, HASH_FACTOR)
         IN  JumpLoop(k2, nbuckets, j, JumpNext(j, Shr33(k2), nbuckets))
    ELSE b

\* rspamd_consistent_hash; the result -1 stands for (guint32)-1.
rspamd_consistent_hash(key, nbuckets) == JumpLoop(key, nbuckets, -1, 0)

\* The values rspamd_cryptobox_fast_hash_specific gives for the keys the
\* callers pass: 1, 5 and 0xdeadbeefcafebabe.
HashKeys == {<<1, 0, 0, 0, 0, 0, 0, 0>>, <<5, 0, 0, 0, 0, 0, 0, 0>>,
             <<190, 186, 254, 202, 239, 190, 173, 222>>,
             <<3, 0, 0, 0, 0, 0, 0, 0>>, <<4, 0, 0, 0, 0, 0, 0, 0>>}

\* The two of them the callers of the list pass.
ListKeys == {<<1, 0, 0, 0, 0, 0, 0, 0>>, <<5, 0, 0, 0, 0, 0, 0, 0>>}

\* rspamd_consistent_hash of every key for every length of alive.
HashIndex ==
    [k \in HashKeys |-> [n \in 0..(MaxUpsHashed + 1) |-> rspamd_consistent_hash(k, n)]]

\* ------------------------------------------------------------ selection
\* What a selector hands back: the state and the index it read in alive.
\* An index that is no index of alive is a read outside the array.
Pick(s, idx) == [s |-> s, idx |-> idx]

\* The index of upstream u in alive, as the selectors that return a
\* pointer found while scanning alive; -2 for the NULL pointer.
NULL_IDX == -2

\* rspamd_upstream_get_random: r is the draw of
\* ottery_rand_range (ups->alive->len - 1), any guint when alive is empty.
rspamd_upstream_get_random(s, r) ==
    Pick(s, IF Len(s.alive) = 0 THEN Len(s.alive) + r ELSE r % Len(s.alive))

\* rspamd_upstream_get_hashed: key is the 64 bit hash of the caller's key.
rspamd_upstream_get_hashed(s, key) ==
    Pick(s, HashIndex[key][Len(s.alive)])

\* a < b on guint, where G_MAXUINT stands for (guint)-1
ULess(a, b) ==
    IF a = G_MAXUINT THEN FALSE ELSE IF b = G_MAXUINT THEN TRUE ELSE a < b

\* The round of the scan that takes the later upstream on equal weights.
RRStep_last(s, use_cur, acc, i) ==
    LET up == s.alive[i]
        w == IF use_cur THEN s.cur_weight[up] ELSE s.weight[up]
        a1 == IF w >= acc.max_weight
              THEN [acc EXCEPT !.selected = i - 1, !.max_weight = w]
              ELSE acc
    IN  IF ULess(s.checked[up] * (s.errors[up] + 1), a1.min_checked)
        THEN [a1 EXCEPT !.min_checked_sel = i - 1,
                        !.min_checked = s.checked[up]]
        ELSE a1

\* One round of the scan of rspamd_upstream_get_round_robin over alive[i].
RRStep(s, use_cur, acc, i) ==
    LET up == s.alive[i]
        w == IF use_cur THEN s.cur_weight[up] ELSE s.weight[up]
        a1 == IF w > acc.max_weight
              THEN [acc EXCEPT !.selected = i - 1, !.max_weight = w]
              ELSE acc
    IN  IF ULess(s.checked[up] * (s.errors[up] + 1), a1.min_checked)
        THEN [a1 EXCEPT !.min_checked_sel = i - 1,
                        !.min_checked = s.checked[up]]
        ELSE a1

RECURSIVE RRScan(_, _, _, _)
RRScan(s, use_cur, acc, i) ==
    IF i > Len(s.alive) THEN acc
    ELSE RRScan(s, use_cur, RRStep(s, use_cur, acc, i), i + 1)

\* rspamd_upstream_get_round_robin
rspamd_upstream_get_round_robin(s, use_cur) ==
    LET acc == RRScan(s, use_cur,
                      [selected |-> NULL_IDX, max_weight |-> 0,
                       min_checked_sel |-> NULL_IDX,
                       min_checked |-> G_MAXUINT], 1)
        s1 == IF acc.max_weight = 0 /\ ULess(G_MAXUINT_HALF, acc.min_checked)
              THEN [s EXCEPT !.checked =
                        [u \in U |-> IF \E i \in 1..Len(s.alive) : s.alive[i] = u
                                     THEN 0 ELSE @[u]]]
              ELSE s
        sel == IF acc.max_weight = 0 THEN acc.min_checked_sel
               ELSE acc.selected
        up == IF sel = NULL_IDX THEN None ELSE s.alive[sel + 1]
        s2 == IF use_cur /\ sel # NULL_IDX
              THEN IF s1.cur_weight[up] > 0
                   THEN [s1 EXCEPT !.cur_weight[up] = @ - 1]
                   ELSE [s1 EXCEPT !.cur_weight[up] = s1.weight[up]]
              ELSE s1
    IN  Pick(s2, sel)

\* The sequential case that ends the round one upstream early.
GetSequential_short(s) ==
    IF s.cur_elt + 1 >= Len(s.alive)
    THEN Pick([s EXCEPT !.cur_elt = 0], NULL_IDX)
    ELSE Pick([s EXCEPT !.cur_elt = @ + 1], s.cur_elt)

\* The RSPAMD_UPSTREAM_SEQUENTIAL case of rspamd_upstream_get_common.
GetSequential(s) ==
    IF s.cur_elt >= Len(s.alive)
    THEN Pick([s EXCEPT !.cur_elt = 0], NULL_IDX)
    ELSE Pick([s EXCEPT !.cur_elt = @ + 1], s.cur_elt)

\* rspamd_upstream_restore_cb that leaves the timer of the upstream armed.
rspamd_upstream_restore_cb_armed(s, u) ==
    LET s1 == [s EXCEPT !.alive = Append(@, u),
                        !.active_idx[u] = Len(s.alive) + 1 - 1]
    IN  AssertRelease(Watch(s1, "ONLINE", u, s1.errors[u]), u)

\* rspamd_upstream_restore_cb
rspamd_upstream_restore_cb(s, u) ==
    LET s1 == [s EXCEPT !.ev[u] = "stopped",
                        !.alive = Append(@, u),
                        !.active_idx[u] = Len(s.alive) + 1 - 1]
    IN  AssertRelease(Watch(s1, "ONLINE", u, s1.errors[u]), u)

RECURSIVE RestoreAll(_, _)
\* g_ptr_array_foreach (ups->ups, rspamd_upstream_restore_cb, ups), from
\* element i on; a failed assertion ends it.
RestoreAll(s, i) ==
    IF i > Len(s.ups) \/ s.crashed THEN s
    ELSE RestoreAll(rspamd_upstream_restore_cb(s, s.ups[i]), i + 1)

\* The rotation rspamd_upstream_get_common uses.
RotationOf(s, default_type, has_key, forced) ==
    LET type == IF ~forced
                THEN IF s.rot_alg # "undef" THEN s.rot_alg ELSE default_type
                ELSE IF default_type # "undef" THEN default_type
                     ELSE s.rot_alg
    IN  IF type = "hashed" /\ ~has_key THEN "random" ELSE type

\* The NULL key of a Get without key.
NoKey == <<>>

\* The end of rspamd_upstream_get_common reading ups instead of alive.
GetByRotation_ups(s, type, key, r, oob) ==
    LET p == CASE type = "hashed" -> rspamd_upstream_get_hashed(s, key)
               [] type = "round_robin" ->
                      rspamd_upstream_get_round_robin(s, TRUE)
               [] type = "master_slave" ->
                      rspamd_upstream_get_round_robin(s, FALSE)
               [] type = "sequential" -> GetSequential(s)
               [] OTHER -> rspamd_upstream_get_random(s, r)
    IN  IF p.idx = NULL_IDX THEN [s |-> p.s, ret |-> None]
        ELSE IF p.idx >= 0 /\ p.idx < Len(p.s.alive)
             THEN LET up == p.s.ups[p.idx + 1]
                  IN  [s |-> [p.s EXCEPT !.checked[up] = @ + 1], ret |-> up]
             ELSE IF oob = "null" THEN [s |-> p.s, ret |-> None]
                  ELSE [s |-> [p.s EXCEPT !.crashed = TRUE], ret |-> None]

\* The switch of rspamd_upstream_get_common and what follows it: r is the
\* random draw, oob what a read outside alive->pdata yields: the NULL
\* pointer ("null"), or a fault or a wild pointer that `up->checked ++`
\* writes through ("abort").
GetByRotation(s, type, key, r, oob) ==
    LET p == CASE type = "hashed" -> rspamd_upstream_get_hashed(s, key)
               [] type = "round_robin" ->
                      rspamd_upstream_get_round_robin(s, TRUE)
               [] type = "master_slave" ->
                      rspamd_upstream_get_round_robin(s, FALSE)
               [] type = "sequential" -> GetSequential(s)
               [] OTHER -> rspamd_upstream_get_random(s, r)
    IN  IF p.idx = NULL_IDX THEN [s |-> p.s, ret |-> None]
        ELSE IF p.idx >= 0 /\ p.idx < Len(p.s.alive)
             THEN LET up == p.s.alive[p.idx + 1]
                  IN  [s |-> [p.s EXCEPT !.checked[up] = @ + 1], ret |-> up]
             ELSE IF oob = "null" THEN [s |-> p.s, ret |-> None]
                  ELSE [s |-> [p.s EXCEPT !.crashed = TRUE], ret |-> None]

\* rspamd_upstream_get_common
rspamd_upstream_get_common(s, default_type, key, forced, r, oob) ==
    LET s1 == IF Len(s.alive) = 0 THEN RestoreAll(s, 1) ELSE s
    IN  IF s1.crashed THEN [s |-> s1, ret |-> None]
        ELSE GetByRotation(
                 s1, RotationOf(s1, default_type, key # NoKey, forced),
                 key, r, oob)

\* ------------------------------------------------------------ construction
\* The weight rspamd_upstreams_add_upstream gives the upstream parsed with
\* weight w.
InitialWeight(s, w) ==
    IF w = 0 /\ s.rot_alg = "master_slave" /\ Len(s.ups) = 0 THEN 1 ELSE w

\* rspamd_upstreams_add_upstream of a spec that parses: numeric tells
\* whether the host is a numeric address (RSPAMD_PARSE_ADDR_NUMERIC).
rspamd_upstreams_add_upstream(s, w, numeric) ==
    LET u == Len(s.ups) + 1
        s1 == [s EXCEPT !.noresolve[u] = numeric,
                        !.addrs[u] = SortAddrs(<<[addr |-> ParsedAddr,
                                                  errors |-> 0]>>),
                        !.weight[u] = InitialWeight(s, w),
                        !.cur_weight[u] = InitialWeight(s, w),
                        !.ups = Append(@, u),
                        !.refcount[u] = 1]
    IN  rspamd_upstream_set_active(s1, u)

RECURSIVE ReleaseFrom(_, _, _)
\* The loop of rspamd_upstreams_destroy over members[i..]: up->ls = NULL
\* (the destroyed flag of the state), REF_RELEASE (up).
ReleaseFrom(s, members, i) ==
    IF i > Len(members) THEN s
    ELSE ReleaseFrom(REF_RELEASE(s, members[i]), members, i + 1)

\* rspamd_upstreams_destroy of a list that is not NULL: alive is freed,
\* each upstream is detached and released, then ups and the list are freed.
rspamd_upstreams_destroy(s) ==
    LET s1 == [s EXCEPT !.alive = <<>>, !.destroyed = TRUE]
        s2 == ReleaseFrom(s1, s.ups, 1)
    IN  [s2 EXCEPT !.ups = <<>>, !.cur_elt = 0, !.rot_alg = "undef"]

\* ---------------------------------------------------------------- inputs
\* A run draws its inputs from one of three parts of the input space:
\*   "clock"    the clock advances between the calls; numeric upstreams,
\*              none of them picked;
\*   "resolve"  upstreams with names to resolve, a resolver or none, DNS
\*              queries refused or made;
\*   "select"   upstreams with weights, repeated selection;
\*   "address"  one upstream, failures of its address;
\*   "weights"  upstreams with weights of 1 and more, picked round-robin,
\*              none of them failing;
\*   "hashed"   up to MaxUpsHashed upstreams, picked by the hash of a key;
\*   "single"   one upstream, resolved or not, failing as the clock advances.
\* Successes, timers and configuration are there in each of them.
\* The parts of the input space in which the list is destroyed.
DestroyScopes == {"clock", "resolve"}

Scopes ==
    {"clock", "resolve", "select", "address", "weights", "hashed", "single"}

\* Upstreams a list is given.
UpsCap ==
    CASE scope \in {"address", "single"} -> 1
      [] scope = "hashed" -> MaxUpsHashed
      [] OTHER -> MaxUps

\* Weights a spec gives an upstream.
MaxWeight == 1
\* The greatest weight of an upstream picked round-robin.
MaxRRWeight == 3
Weights ==
    IF scope = "select" THEN 0..MaxWeight
    ELSE IF scope = "weights" THEN 1..MaxRRWeight ELSE {0}

\* Failures after which Fail is not called on an upstream again.
ErrCap == IF scope = "weights" THEN 0 ELSE MaxErrCount

\* Whether the host of a spec is numeric.
Numerics ==
    IF scope \in {"resolve", "address", "single"} THEN BOOLEAN ELSE {TRUE}

\* Whether rspamd_upstreams_library_config is given a resolver.
Resolvers == IF scope \in {"resolve", "single"} THEN BOOLEAN ELSE {TRUE}

\* The addr_failure argument of rspamd_upstream_fail.
AddrFailures == IF scope = "address" THEN BOOLEAN ELSE {FALSE}

\* Picks after which an upstream is not selected again.
CheckedCap ==
    CASE scope = "select" -> MaxChecked
      [] scope = "weights" -> MaxRRWeight
      [] scope \in {"clock", "single"} -> 0
      [] OTHER -> 1

\* Queries rdns_make_request_full accepts out of the two of a resolution.
Made ==
    CASE scope = "resolve" -> {0, 2}
      [] scope = "single" -> {1, 2}
      [] OTHER -> {2}

\* Addresses a DNS reply brings: two A records and an AAAA record.
Resolved ==
    [a |-> [af |-> "inet", ip |-> 1, port |-> 0],
     b |-> [af |-> "inet", ip |-> 2, port |-> 0],
     c |-> [af |-> "inet6", ip |-> 3, port |-> 0]]

\* Entries of a DNS reply.
DnsReplies ==
    IF scope = "address"
    THEN {<<>>, <<Resolved.a>>, <<Resolved.b>>, <<Resolved.a, Resolved.b>>,
          <<Resolved.c>>}
    ELSE {<<>>}

\* Draws of ottery_rand_range that differ modulo the length of alive.
Draws == 0..(MaxUps - 1)

\* The calls of rspamd_upstream_get and rspamd_upstream_get_forced:
\* default or forced rotation, key, forced.
GetCalls ==
    (CASE scope = "select" -> Rotations
       [] scope = "weights" -> {"round_robin"}
       [] scope = "hashed" -> {"hashed"}
       [] OTHER -> Rotations \ {"sequential"})
        \X (IF scope = "hashed" THEN HashKeys ELSE ListKeys \cup {NoKey})
        \X BOOLEAN

\* What a call comes to: the rotation used and the key it reads.
Effective(c) ==
    LET type == RotationOf(Cur, c[1], c[2] # NoKey, c[3])
    IN  <<type, IF type = "hashed" THEN c[2] ELSE NoKey>>

\* --------------------------------------------------------------- actions
\* The state after rspamd_upstreams_library_init and rspamd_upstreams_create
\* (with the context or with NULL): an empty list, nothing configured.
Init ==
    /\ hasCtx \in BOOLEAN /\ scope \in Scopes
    /\ configured = FALSE /\ res = FALSE /\ now = 0 /\ crashed = FALSE
    /\ destroyed = FALSE
    /\ ups = <<>> /\ alive = <<>> /\ cur_elt = 0 /\ rot_alg = "undef"
    /\ weight = [u \in U |-> 0] /\ cur_weight = [u \in U |-> 0]
    /\ errors = [u \in U |-> 0] /\ checked = [u \in U |-> 0]
    /\ dns_requests = [u \in U |-> 0] /\ active_idx = [u \in U |-> 0]
    /\ last_fail = [u \in U |-> 0] /\ ev = [u \in U |-> "stopped"]
    /\ noresolve = [u \in U |-> FALSE] /\ refcount = [u \in U |-> 0]
    /\ addrs = [u \in U |-> <<>>] /\ addrs_cur = [u \in U |-> 0]
    /\ new_addrs = [u \in U |-> <<>>]
    /\ events = <<>> /\ last = Op("Init", None) /\ ej_pending = {}
    /\ failHist = [u \in U |-> <<>>] /\ winFresh = [u \in U |-> FALSE]
    /\ offline = {}
    /\ locks = [t \in Threads |-> Idle]

\* The clock advances.
Tick ==
    /\ ~crashed /\ scope \in {"clock", "single"} /\ now < MaxTime
    /\ now' = now + 1
    /\ events' = <<>> /\ last' = Op("Tick", None)
    /\ UNCHANGED <<prog, scope, ej_pending, failHist, winFresh, offline, locks>>

\* rspamd_upstreams_library_config
Configure ==
    /\ ~crashed /\ hasCtx
    /\ \E resolver \in Resolvers :
           Commit(rspamd_upstreams_library_config(Cur, resolver))
    /\ last' = Op("Configure", None)
    /\ UNCHANGED <<now, scope, ej_pending, failHist, winFresh, locks>>

\* rspamd_upstreams_add_upstream
AddUpstream ==
    /\ ~crashed /\ ~destroyed /\ Len(ups) < UpsCap
    /\ \E w \in Weights, numeric \in Numerics :
           Commit(rspamd_upstreams_add_upstream(Cur, w, numeric))
    /\ last' = Op("AddUpstream", Len(ups) + 1)
    /\ UNCHANGED <<now, scope, ej_pending, failHist, winFresh, locks>>

\* The latest max_errors timestamps of h followed by t.
Latest(h, t) ==
    LET q == Append(h, t)
    IN  IF Len(q) > max_errors THEN SubSeq(q, Len(q) - max_errors + 1, Len(q))
        ELSE q

\* rspamd_upstream_fail (u, addr_failure), whatever thread runs it.
FailCall(u) ==
    /\ ~crashed /\ IsMember(u) /\ errors[u] < ErrCap
    /\ \E addr_failure \in AddrFailures, made \in Made :
        LET s == rspamd_upstream_fail(Cur, u, addr_failure, now, made)
            ejected == IsAlive(u) /\ ~\E i \in 1..Len(s.alive) : s.alive[i] = u
            counted == IsAlive(u) /\ Len(ups) >= 2
        IN  /\ addr_failure =>
                   \A i \in 1..Len(addrs[u]) : addrs[u][i].errors < MaxAddrErrors
            /\ Commit(s)
            /\ last' = Op("Fail", u)
            /\ ej_pending' = IF ejected THEN ej_pending \cup {u} ELSE ej_pending
            /\ failHist' = [failHist EXCEPT ![u] =
                               IF counted THEN Latest(@, now) ELSE @]
            /\ winFresh' = [winFresh EXCEPT ![u] =
                               IF ~counted THEN @
                               ELSE IF failHist[u] = <<>> THEN errors[u] = 0
                               ELSE IF Len(failHist[u]) = max_errors THEN FALSE
                               ELSE @]
    /\ UNCHANGED <<now, scope>>

\* rspamd_upstream_fail (u, addr_failure)
Fail(u) == FailCall(u) /\ UNCHANGED locks

\* rspamd_upstream_ok (u)
Ok(u) ==
    /\ ~crashed /\ IsMember(u)
    /\ Commit(rspamd_upstream_ok(Cur, u))
    /\ last' = Op("Ok", u)
    /\ failHist' = [failHist EXCEPT ![u] = <<>>]
    /\ winFresh' = [winFresh EXCEPT ![u] = FALSE]
    /\ UNCHANGED <<now, scope, ej_pending, locks>>

\* rspamd_upstream_revive_cb, whatever thread runs it.
ReviveCall(u) ==
    /\ ~crashed /\ ev[u] = "revive"
    /\ Commit(rspamd_upstream_revive_cb(Cur, u))
    /\ last' = Op("Revive", u)
    /\ ej_pending' = ej_pending \ {u}
    /\ failHist' = [failHist EXCEPT ![u] = <<>>]
    /\ winFresh' = [winFresh EXCEPT ![u] = FALSE]
    /\ UNCHANGED <<now, scope>>

\* The revive timer of u fires: rspamd_upstream_revive_cb.
ReviveFire(u) == ReviveCall(u) /\ UNCHANGED locks

\* The lazy-resolve timer of u fires: rspamd_upstream_lazy_resolve_cb.
LazyFire(u) ==
    /\ ~crashed /\ ev[u] = "lazy"
    /\ \E made \in Made : Commit(rspamd_upstream_lazy_resolve_cb(Cur, u, made))
    /\ last' = Op("Lazy", u)
    /\ UNCHANGED <<now, scope, ej_pending, failHist, winFresh, locks>>

\* A DNS reply for u arrives: rspamd_upstream_dns_cb.
DnsReply(u) ==
    /\ ~crashed /\ dns_requests[u] > 0
    /\ \E entries \in DnsReplies, reset_errors \in BOOLEAN :
           Commit(rspamd_upstream_dns_cb(Cur, u, entries, reset_errors))
    /\ last' = Op("Dns", u)
    /\ UNCHANGED <<now, scope, ej_pending, failHist, winFresh, locks>>

\* rspamd_upstream_get and rspamd_upstream_get_forced, whatever thread runs
\* them; calls that come to the same rotation and key are taken once.
GetCall ==
    /\ ~crashed /\ ~destroyed
    /\ \E e \in {Effective(c) : c \in GetCalls} :
        LET c == CHOOSE c \in GetCalls : Effective(c) = e
        IN  \E r \in IF e[1] \in {"random", "undef"} THEN Draws ELSE {0},
               oob \in IF Len(ups) = 0 THEN {"null", "abort"} ELSE {"null"} :
            LET g == rspamd_upstream_get_common(Cur, c[1], c[2], c[3], r, oob)
            IN  /\ \A u \in U : g.s.checked[u] <= CheckedCap
                /\ Commit(g.s)
                /\ last' = [Op("Get", None) EXCEPT
                               !.ret = g.ret,
                               !.acted = ej_pending # {}]
    /\ ej_pending' = {}
    /\ failHist' = IF Len(alive) = 0 THEN [u \in U |-> <<>>] ELSE failHist
    /\ winFresh' = IF Len(alive) = 0 THEN [u \in U |-> FALSE] ELSE winFresh
    /\ UNCHANGED <<now, scope>>

\* rspamd_upstream_get and rspamd_upstream_get_forced
Get == GetCall /\ UNCHANGED locks

\* rspamd_upstream_addr_next (u)
AddrNext(u) ==
    /\ ~crashed /\ IsMember(u)
    /\ Commit(rspamd_upstream_addr_next(Cur, u))
    /\ last' = Op("AddrNext", u)
    /\ UNCHANGED <<now, scope, ej_pending, failHist, winFresh, locks>>

\* rspamd_upstream_reresolve
Reresolve ==
    /\ ~crashed /\ hasCtx
    /\ \E made \in Made : Commit(rspamd_upstream_reresolve(Cur, made))
    /\ last' = Op("Reresolve", None)
    /\ UNCHANGED <<now, scope, ej_pending, failHist, winFresh, locks>>

\* rspamd_upstreams_destroy: the list is not used afterwards.
Destroy ==
    /\ ~crashed /\ ~destroyed /\ scope \in DestroyScopes
    /\ Commit(rspamd_upstreams_destroy(Cur))
    /\ last' = Op("Destroy", None)
    /\ ej_pending' = {}
    /\ failHist' = [u \in U |-> <<>>]
    /\ winFresh' = [u \in U |-> FALSE]
    /\ UNCHANGED <<now, scope, locks>>

Next ==
    \/ Tick
    \/ Configure
    \/ AddUpstream
    \/ \E u \in U : Fail(u)
    \/ \E u \in U : Ok(u)
    \/ \E u \in U : ReviveFire(u)
    \/ \E u \in U : LazyFire(u)
    \/ \E u \in U : DnsReply(u)
    \/ \E u \in U : AddrNext(u)
    \/ Reresolve
    \/ Destroy
    \/ Get

Spec == Init /\ [][Next]_vars

\* The event loop runs: a timer that is armed fires, a DNS query that is
\* pending is answered.
FairSpec ==
    Spec /\ \A u \in U : /\ WF_vars(ReviveFire(u))
                         /\ WF_vars(LazyFire(u))
                         /\ WF_vars(DnsReply(u))

\* ------------------------------------------------- calls from two threads
\* With UPSTREAMS_THREAD_SAFE the calls take the mutex of the list and the
\* mutexes of the upstreams. A call that takes one mutex at a time is one
\* step, taken when the mutex is free. A call that takes a second mutex
\* while it holds a first stops in between, locks[t] telling where:
\*   "fail"     rspamd_upstream_fail holds the mutex of upstream at and is
\*              about to take the list's in rspamd_upstream_set_inactive;
\*   "revive"   rspamd_upstream_revive_cb holds the mutex of upstream at and
\*              is about to take the list's in rspamd_upstream_set_active;
\*   "restore"  rspamd_upstream_get_common holds the list's mutex and is
\*              about to take that of ups[at] in rspamd_upstream_restore_cb.
\* What a call changes is applied when it holds all its mutexes.
HoldsUp(t, u) == locks[t].pc \in {"fail", "revive"} /\ locks[t].at = u
WantsList(t) == locks[t].pc \in {"fail", "revive"}
HoldsList(t) == locks[t].pc = "restore"
WantsUp(t, u) ==
    /\ locks[t].pc = "restore"
    /\ locks[t].at <= Len(ups) /\ ups[locks[t].at] = u
UpFree(u) == \A t \in Threads : ~HoldsUp(t, u)
ListFree == \A t \in Threads : ~HoldsList(t)

\* rspamd_upstream_fail (u) reaches rspamd_upstream_set_inactive.
Ejects(u) ==
    /\ hasCtx /\ active_idx[u] # NOT_ALIVE
    /\ errors[u] > 0 /\ now >= last_fail[u]
    /\ RateExceeded(errors[u] + 1, now - last_fail[u])
    /\ CanEject(Len(ups))

\* rspamd_upstream_fail that ejects: past the test of active_idx, the
\* upstream's mutex is taken.
FailBegin(t, u) ==
    /\ ~crashed /\ locks[t] = Idle /\ IsMember(u) /\ errors[u] < ErrCap
    /\ Ejects(u) /\ UpFree(u)
    /\ locks' = [locks EXCEPT ![t] = [pc |-> "fail", at |-> u]]
    /\ UNCHANGED <<prog, now, hist>>

\* ... then the list's mutex in rspamd_upstream_set_inactive; both are given
\* back before the call returns. rspamd_upstream_fail that does not eject
\* takes the upstream's mutex only (and none when the upstream is not alive
\* or has no context).
FailRun(u) ==
    /\ \/ ~Ejects(u) /\ (hasCtx /\ IsAlive(u) => UpFree(u))
       \/ ListFree /\ \E t \in Threads : locks[t] = [pc |-> "fail", at |-> u]
    /\ FailCall(u)
    /\ locks' = [t \in Threads |->
                     IF locks[t] = [pc |-> "fail", at |-> u] THEN Idle
                     ELSE locks[t]]

\* rspamd_upstream_ok takes the upstream's mutex.
OkAlone(u) == UpFree(u) /\ Ok(u)

\* rspamd_upstream_revive_cb takes the upstream's mutex,
ReviveBegin(t, u) ==
    /\ ~crashed /\ locks[t] = Idle /\ ev[u] = "revive" /\ UpFree(u)
    /\ locks' = [locks EXCEPT ![t] = [pc |-> "revive", at |-> u]]
    /\ UNCHANGED <<prog, now, hist>>

\* ... then the list's in rspamd_upstream_set_active.
ReviveEnd(t) ==
    /\ locks[t].pc = "revive" /\ ListFree
    /\ ReviveCall(locks[t].at)
    /\ locks' = [locks EXCEPT ![t] = Idle]

\* rspamd_upstream_lazy_resolve_cb takes the upstream's mutex.
LazyAlone(u) == UpFree(u) /\ LazyFire(u)

\* rspamd_upstream_dns_cb and rspamd_upstream_update_addrs take the
\* upstream's mutex, one after the other.
DnsAlone(u) == UpFree(u) /\ DnsReply(u)

\* rspamd_upstreams_add_upstream takes the list's mutex in
\* rspamd_upstream_set_active.
AddAlone == ListFree /\ AddUpstream

\* rspamd_upstream_get_common with no upstream alive takes the list's mutex
\* and goes through ups,
RestoreBegin(t) ==
    /\ ~crashed /\ locks[t] = Idle /\ ListFree
    /\ Len(alive) = 0 /\ Len(ups) > 0
    /\ \A u \in U : checked[u] < CheckedCap
    /\ locks' = [locks EXCEPT ![t] = [pc |-> "restore", at |-> 1]]
    /\ UNCHANGED <<prog, now, hist>>

\* ... rspamd_upstream_restore_cb taking the mutex of each upstream in turn,
RestoreOne(t) ==
    LET i == locks[t].at
    IN  /\ locks[t].pc = "restore" /\ i <= Len(ups) /\ UpFree(ups[i])
        /\ Commit(rspamd_upstream_restore_cb(Cur, ups[i]))
        /\ locks' = [locks EXCEPT ![t].at = i + 1]
        /\ ej_pending' = ej_pending \ {ups[i]}
        /\ failHist' = [failHist EXCEPT ![ups[i]] = <<>>]
        /\ winFresh' = [winFresh EXCEPT ![ups[i]] = FALSE]
        /\ UNCHANGED <<now, scope, last>>

\* ... and picks an upstream once the list's mutex is given back.
\* rspamd_upstream_get_common with an upstream alive, or with none at all,
\* takes the list's mutex only.
GetRun ==
    /\ \/ ListFree /\ (Len(alive) > 0 \/ Len(ups) = 0)
       \/ \E t \in Threads : locks[t].pc = "restore" /\ locks[t].at > Len(ups)
    /\ GetCall
    /\ locks' = [t \in Threads |->
                     IF locks[t].pc = "restore" THEN Idle ELSE locks[t]]

LockInit == Init /\ scope = "resolve"

LockNext ==
    \/ Configure
    \/ AddAlone
    \/ \E u \in U : FailRun(u)
    \/ \E u \in U : OkAlone(u)
    \/ \E u \in U : LazyAlone(u)
    \/ \E u \in U : DnsAlone(u)
    \/ GetRun
    \/ \E t \in Threads, u \in U : FailBegin(t, u)
    \/ \E t \in Threads, u \in U : ReviveBegin(t, u)
    \/ \E t \in Threads : ReviveEnd(t)
    \/ \E t \in Threads : RestoreBegin(t)
    \/ \E t \in Threads : RestoreOne(t)

LockSpec == LockInit /\ [][LockNext]_vars

\* ---------------------------------------------------------------- claims
\* The watcher calls of the last operation for event e and upstream u.
Fired(e, u) ==
    Cardinality({i \in 1..Len(events) :
                     events[i].event = e /\ events[i].up = u})

\* C1: every upstream of alive sits in alive at its active_idx, alive holds
\* no upstream twice and only members of ups, and a member of ups that is
\* not in alive has active_idx -1.
AliveIndexConsistent ==
    /\ \A i \in 1..Len(alive) :
           /\ IsMember(alive[i])
           /\ active_idx[alive[i]] \in 0..(Len(alive) - 1)
           /\ alive[active_idx[alive[i]] + 1] = alive[i]
    /\ \A i, j \in 1..Len(alive) : alive[i] = alive[j] => i = j
    /\ \A u \in U : IsMember(u) /\ ~IsAlive(u) => active_idx[u] = NOT_ALIVE

\* C1 happens: a Fail removed the first upstream of alive and the one
\* behind it moved to index 0.
AliveIndexRepaired ==
    Fired("OFFLINE", 1) = 1 /\ alive = <<2>> /\ active_idx[2] = 0

\* C2 as stated: the Get that follows the ejection of u (no revive timer
\* in between) does not return u, also when u was the last alive upstream.
EjectedNotReturned ==
    [][last'.op = "Get" => last'.ret \notin ej_pending]_vars

\* C2 amended: so it is when alive is not empty at the call of Get.
EjectedNotReturnedUnlessRestored ==
    [][last'.op = "Get" /\ Len(alive) > 0 => last'.ret \notin ej_pending]_vars

\* C2 happens: the Get that followed an ejection returned an upstream
\* while the ejected one is out of alive.
GetAfterEjection ==
    /\ last.op = "Get" /\ last.acted /\ last.ret # None
    /\ \E u \in U : IsMember(u) /\ ~IsAlive(u)

\* The latest max_errors Fail calls on u, alive in a list of two or more,
\* since the last Ok and the last return of u to alive, lie within d of
\* the first of them (strictly, if strict).
FailedWithin(u, d, strict) ==
    /\ Len(failHist[u]) = max_errors
    /\ IF strict THEN failHist[u][max_errors] - failHist[u][1] < d
       ELSE failHist[u][max_errors] - failHist[u][1] <= d

\* C3 as stated: max_errors Fail calls within error_time of the first of
\* them, on an alive upstream of a list of two or more, with no Ok in
\* between, have removed the upstream from alive.
FailuresEject ==
    \A u \in U : FailedWithin(u, error_time, FALSE) => ~IsAlive(u)

\* C3 amended: so it is for a list created with a context when the first
\* of the calls found no error counted and the calls lie less than
\* error_time apart (max_errors being 2 or more).
FreshFailuresEject ==
    \A u \in U :
        hasCtx /\ max_errors >= 2 /\ winFresh[u]
               /\ FailedWithin(u, error_time, TRUE) => ~IsAlive(u)

\* C3 happens: the second of two Fail calls a second apart removed the
\* upstream.
FailuresEjected ==
    \E u \in U :
        /\ hasCtx /\ winFresh[u] /\ FailedWithin(u, error_time, TRUE)
        /\ failHist[u][max_errors] > failHist[u][1]
        /\ Fired("OFFLINE", u) = 1 /\ ~IsAlive(u)

\* C4 as stated, from the time the context is configured on: with the
\* event loop running, an upstream out of alive is in alive again at some
\* later time, whether it left alive before the configuration or after.
EjectedReturns ==
    \A u \in U : (IsMember(u) /\ ~IsAlive(u) /\ configured) ~> IsAlive(u)

\* C5: the upstream of a list of one is in alive and the last operation
\* called no OFFLINE watcher.
SingleNeverEjected ==
    Len(ups) = 1 =>
        /\ IsAlive(ups[1])
        /\ \A i \in 1..Len(events) : events[i].event # "OFFLINE"

\* C5 happens: a Fail on the upstream of a list of one found the error
\* rate over the limit.
SingleOverRate ==
    /\ Len(ups) = 1 /\ IsAlive(ups[1])
    /\ \E i \in 1..Len(events) :
           /\ events[i].event = "FAILURE" /\ events[i].up = ups[1]
           /\ events[i].count >= max_errors
           /\ RateExceeded(events[i].count, now - last_fail[ups[1]])

\* C6: after Ok (u), and after a Fail that ejected u, errors of u is 0;
\* an upstream out of alive, which Ok leaves as it is, has errors 0.
ErrorsClearedAfterOkOrEjection ==
    /\ [][\A u \in U :
              Ok(u) \/ (Fail(u) /\ IsAlive(u) /\ active_idx'[u] = NOT_ALIVE)
                  => errors'[u] = 0]_vars
    /\ [](\A u \in U : IsMember(u) /\ ~IsAlive(u) => errors[u] = 0)

\* C6 happens: Ok on an alive upstream with errors counted called the
\* SUCCESS watcher.
OkClearedErrors ==
    \E u \in U : Fired("SUCCESS", u) = 1 /\ IsAlive(u)

\* C7 as stated: the OFFLINE watcher is called with the errors of the
\* upstream at the ejection, the ejecting failure counted.
OfflineCountsErrors ==
    [][\A i \in 1..Len(events') :
           events'[i].event = "OFFLINE" =>
               events'[i].count = errors[events'[i].up] + 1]_vars

\* C8 as stated: the revive timer that puts the upstream back into alive
\* calls the ONLINE watcher for it once.
ReviveFiresOnline ==
    last.op = "Revive" /\ IsAlive(last.up) => Fired("ONLINE", last.up) = 1

\* C9: a Get on a list with alive empty and ups not empty leaves every
\* upstream of ups in alive, in the order of ups, no timer armed, and has
\* called the ONLINE watcher once for each.
MassRestoreComplete ==
    [][last'.op = "Get" /\ Len(alive) = 0 /\ Len(ups) > 0 =>
           /\ ~crashed'
           /\ alive' = ups'
           /\ \A u \in U : ev'[u] = "stopped"
           /\ \A u \in U :
                  Cardinality({i \in 1..Len(events') :
                                   events'[i].event = "ONLINE"
                                       /\ events'[i].up = u})
                      = IF IsMember(u) THEN 1 ELSE 0]_vars

\* C9 happens: a Get restored two upstreams.
MassRestored ==
    /\ last.op = "Get" /\ Len(ups) = 2 /\ alive = ups
    /\ Fired("ONLINE", 1) = 1 /\ Fired("ONLINE", 2) = 1

\* C10 as stated: a Get on a list with alive empty returns an upstream
\* if and only if ups is not empty, whatever the rotation.
EmptyAliveGet ==
    [][last'.op = "Get" /\ Len(alive) = 0 =>
           /\ ~crashed'
           /\ (last'.ret # None) <=> (Len(ups) > 0)]_vars

RECURSIVE SeqGets(_, _)
\* n Gets in a row with the sequential rotation forced, from state s: the
\* state they end in and what they returned.
SeqGets(s, n) ==
    IF n = 0 THEN [s |-> s, rets |-> <<>>]
    ELSE LET g == rspamd_upstream_get_common(s, "sequential", NoKey, TRUE,
                                             0, "null")
             rest == SeqGets(g.s, n - 1)
         IN  [s |-> rest.s, rets |-> <<g.ret>> \o rest.rets]

\* C11: with the cursor at its start and N upstreams alive, N sequential
\* Gets in a row return the upstreams of alive once each, the next one
\* returns none and leaves the cursor at 0.
SequentialRound ==
    cur_elt = 0 /\ Len(alive) > 0 /\ ~crashed =>
        LET run == SeqGets(Cur, Len(alive) + 1)
        IN  /\ run.rets = alive \o <<None>>
            /\ run.s.cur_elt = 0
            /\ run.s.alive = alive

\* C11 happens: the second of two sequential Gets on two alive upstreams
\* returned the second of them.
SequentialRoundDone ==
    /\ last.op = "Get" /\ Len(alive) = 2 /\ cur_elt = 2
    /\ last.ret = alive[2] /\ checked[alive[1]] > 0

\* The index in alive, from 0, of the first upstream of the greatest
\* cur_weight in state s.
FirstHeaviest(s) ==
    CHOOSE i \in 0..(Len(s.alive) - 1) :
        /\ \A j \in 1..Len(s.alive) :
               s.cur_weight[s.alive[j]] <= s.cur_weight[s.alive[i + 1]]
        /\ \A j \in 1..i :
               s.cur_weight[s.alive[j]] < s.cur_weight[s.alive[i + 1]]

RECURSIVE RRGets(_, _)
\* n Gets in a row with the round-robin rotation forced, from state s:
\* what they returned, and whether each returned the first upstream of the
\* greatest cur_weight and took one off it.
RRGets(s, n) ==
    IF n = 0 THEN [rets |-> <<>>, greatest |-> TRUE]
    ELSE LET g == rspamd_upstream_get_common(s, "round_robin", NoKey, TRUE,
                                             0, "null")
             rest == RRGets(g.s, n - 1)
         IN  [rets |-> <<g.ret>> \o rest.rets,
              greatest |-> /\ g.ret = s.alive[FirstHeaviest(s) + 1]
                           /\ g.s.cur_weight[g.ret] = s.cur_weight[g.ret] - 1
                           /\ rest.greatest]

RECURSIVE SumWeights(_, _)
\* The weights of the upstreams ups[i..] of state s, added up.
SumWeights(s, i) ==
    IF i > Len(s.ups) THEN 0 ELSE s.weight[s.ups[i]] + SumWeights(s, i + 1)

\* How often u is in the sequence q.
Times(q, u) == Cardinality({k \in 1..Len(q) : q[k] = u})

\* Every upstream of the list is alive with the weight it was added with,
\* a positive one, none of it used.
FreshWeighted ==
    /\ ~crashed /\ Len(ups) > 0 /\ alive = ups
    /\ \A u \in U : IsMember(u) => weight[u] > 0 /\ cur_weight[u] = weight[u]

\* The list of A with weight 10 and B with weight 1, added to an empty one.
TenAndOne ==
    rspamd_upstreams_add_upstream(
        rspamd_upstreams_add_upstream(Cur, 10, TRUE), 1, TRUE)

\* C12: on freshly added upstreams with positive weights every round-robin
\* Get of the first sum (weights) returns the first alive upstream of the
\* greatest cur_weight and decrements it, and together they return each
\* upstream weight times; on A (10) and B (1) they are A ten times, then B.
RoundRobinByWeight ==
    /\ FreshWeighted =>
           LET run == RRGets(Cur, SumWeights(Cur, 1))
           IN  /\ run.greatest
               /\ \A u \in U : IsMember(u) => Times(run.rets, u) = weight[u]
    /\ Len(ups) = 0 /\ ~crashed =>
           RRGets(TenAndOne, 11).rets = [k \in 1..11 |-> IF k <= 10 THEN 1 ELSE 2]

\* C12 happens: round-robin Gets used up the weights of two upstreams, the
\* first of them heavier, and picked each as often as its weight.
RoundRobinRoundDone ==
    /\ last.op = "Get" /\ Len(ups) = 2 /\ alive = ups
    /\ weight[1] > weight[2] /\ weight[2] > 0
    /\ \A u \in {1, 2} : cur_weight[u] = 0 /\ checked[u] = weight[u]

\* The upstream a Get with the hashed rotation forced and key k returns in
\* state s.
HashedUp(s, k) ==
    rspamd_upstream_get_common(s, "hashed", k, TRUE, 0, "null").ret

\* C13 as stated: when a Fail takes X out of alive and leaves others, a
\* key that the hashed rotation mapped to another upstream is mapped to
\* that upstream still, and a key that it mapped to X is mapped to one of
\* those left.
HashedKeepsOthers ==
    [][\A x \in U :
           IsAlive(x) /\ active_idx'[x] = NOT_ALIVE /\ Len(alive') > 0 =>
               \A k \in HashKeys :
                   IF HashedUp(Cur, k) = x
                   THEN HashedUp(Cur', k) # x /\ HashedUp(Cur', k) # None
                   ELSE HashedUp(Cur', k) = HashedUp(Cur, k)]_vars

RECURSIVE Alternating(_, _, _)
\* The watcher calls evs[i..] keep OFFLINE and ONLINE alternating for every
\* upstream, when the upstreams of off were last called OFFLINE: OFFLINE
\* comes only for an upstream not in off, ONLINE only for one in off.
Alternating(off, evs, i) ==
    IF i > Len(evs) THEN TRUE
    ELSE CASE evs[i].event = "OFFLINE" ->
                  /\ evs[i].up \notin off
                  /\ Alternating(off \cup {evs[i].up}, evs, i + 1)
           [] evs[i].event = "ONLINE" ->
                  /\ evs[i].up \in off
                  /\ Alternating(off \ {evs[i].up}, evs, i + 1)
           [] OTHER -> Alternating(off, evs, i + 1)

\* C14 as stated, its second half: in the watcher calls for one upstream
\* OFFLINE and ONLINE alternate, OFFLINE first.
OfflineOnlineAlternate ==
    [][scope = "clock" => Alternating(offline, events', 1)]_vars

\* No thread holds the mutex of an upstream while it takes the list's.
ListThenUpstream ==
    \A t \in Threads : WantsList(t) => \A u \in U : ~HoldsUp(t, u)

\* No two threads wait for each other's mutex.
NoLockCycle ==
    \A t1, t2 \in Threads, u \in U :
        ~(HoldsUp(t1, u) /\ WantsList(t1) /\ HoldsList(t2) /\ WantsUp(t2, u))

\* C15 as stated: every call takes the list's mutex before an upstream's,
\* never the other way round, and no two threads deadlock.
LockOrderKept == ListThenUpstream /\ NoLockCycle

EjectsOnlyLater ==
    [][\A u \in U :
           IsAlive(u) /\ active_idx'[u] = NOT_ALIVE =>
               /\ now > last_fail[u]
               /\ (errors[u] + 1) * error_time
                      > max_errors * (now - last_fail[u])
               /\ Len(ups) > 1]_vars

\* The test a Fail call on u makes before it ejects, on the state it finds.
OverRate(u) ==
    /\ hasCtx /\ IsAlive(u) /\ errors[u] > 0 /\ Len(ups) > 1
    /\ \/ now = last_fail[u]
       \/ /\ now > last_fail[u]
          /\ (errors[u] + 1) * error_time > max_errors * (now - last_fail[u])

\* C17, amended: a Fail call takes an upstream out of alive exactly when the
\* upstream has a context and errors counted already, the list has more than
\* one upstream, and either now = last_fail or the rate of its errors over
\* now - last_fail > 0 is above the limit; any other Fail leaves it alive.
EjectsExactlyOverRate ==
    [][\A u \in U :
           /\ IsAlive(u) /\ active_idx'[u] = NOT_ALIVE => OverRate(u)
           /\ Fail(u) /\ OverRate(u) => active_idx'[u] = NOT_ALIVE]_vars

\* The second Fail came at the timestamp of the first, after the clock had
\* moved, and ejected the upstream.
SameTickEjected ==
    /\ Fired("OFFLINE", 1) = 1 /\ ~IsAlive(1)
    /\ last_fail[1] = now /\ now > 0

\* A Fail call on the only upstream of a list, alive with a context and
\* errors counted, more than revive_time after last_fail.
LoneLateFail(u) ==
    /\ Fail(u) /\ hasCtx /\ IsAlive(u) /\ Len(ups) = 1
    /\ errors[u] > 0 /\ now - last_fail[u] > revive_time

\* rspamd_upstream_resolve_addrs would send its queries for u.
Resolvable(u) ==
    res /\ configured /\ dns_requests[u] = 0 /\ ~noresolve[u]

\* C18 as stated: such a Fail call resets errors to 0 and starts a DNS
\* resolution of the upstream, whatever the error rate is.
LoneFailResolves ==
    [][\A u \in U :
           LoneLateFail(u) =>
               /\ errors'[u] = 0
               /\ Resolvable(u) => dns_requests'[u] > 0]_vars

\* C18, amended: such a Fail call resets errors to 0 and starts a DNS
\* resolution (whose queries are in flight when the resolver accepts one)
\* only when the error rate, the failure counted, is above
\* max_errors / error_time; otherwise it counts the failure and resolves
\* nothing.
LoneFailResolvesOverRate ==
    [][\A u \in U :
           LoneLateFail(u) =>
               IF (errors[u] + 1) * error_time
                      > max_errors * (now - last_fail[u])
               THEN /\ errors'[u] = 0
                    /\ Resolvable(u) => dns_requests'[u] > 0
               ELSE /\ errors'[u] = errors[u] + 1
                    /\ dns_requests'[u] = dns_requests[u]]_vars

\* The third failure of a lone upstream, two seconds after the first, has
\* cleared the count and sent the queries.
LoneFailResolved ==
    /\ Len(ups) = 1 /\ IsAlive(1) /\ Fired("FAILURE", 1) = 1
    /\ events[1].count = 3 /\ errors[1] = 0 /\ dns_requests[1] > 0
    /\ now - last_fail[1] > revive_time

\* C19 as stated: an upstream in alive has no revive timer pending, and an
\* upstream of the list that is not in alive has no lazy-resolve timer
\* pending.
TimersMatchAlive ==
    \A u \in U : IsMember(u) =>
        /\ IsAlive(u) => ev[u] # "revive"
        /\ ~IsAlive(u) => ev[u] # "lazy"

\* C20 as stated: the reference count of an upstream of a list is one for
\* the list, one for a scheduled timer (lazy-resolve or revive) and one for
\* each DNS query in flight.
RefcountCountsTimers ==
    \A u \in U : IsMember(u) /\ ~crashed =>
        refcount[u] = 1 + (IF ev[u] # "stopped" THEN 1 ELSE 0)
                        + dns_requests[u]

\* C20, amended: the reference count of an upstream of a list is one for
\* the list, one while the upstream is out of alive (taken at its ejection,
\* given back by the revive timer or the mass restore, whether or not a
\* timer is scheduled) and one for each DNS query in flight; a lazy-resolve
\* timer holds none.
RefcountCountsEjection ==
    \A u \in U : IsMember(u) /\ ~crashed =>
        refcount[u] = 1 + (IF IsAlive(u) THEN 0 ELSE 1) + dns_requests[u]

\* An ejected upstream with its two queries in flight next to an alive one
\* with its lazy-resolve timer scheduled.
RefcountsHeld ==
    /\ IsMember(1) /\ ~IsAlive(1) /\ dns_requests[1] = 2 /\ refcount[1] = 4
    /\ IsAlive(2) /\ ev[2] = "lazy" /\ refcount[2] = 1

\* checked x (errors + 1) of upstream u.
Load(u) == checked[u] * (errors[u] + 1)

\* C21 as stated: when no alive upstream has cur_weight left, a Get with the
\* round-robin rotation returns an alive upstream whose checked x
\* (errors + 1) is the least among the alive ones.
LeastLoadedPicked ==
    /\ ~crashed /\ Len(alive) > 0
    /\ \A i \in 1..Len(alive) : cur_weight[alive[i]] = 0
    => LET g == rspamd_upstream_get_common(Cur, "round_robin", NoKey, TRUE,
                                           0, "null")
       IN  /\ IsAlive(g.ret)
           /\ \A i \in 1..Len(alive) : Load(g.ret) <= Load(alive[i])

\* C22 as stated: the address rspamd_upstream_addr_next returns on an
\* upstream of the list has no more errors than the address that was
\* current when it was called.
AddrNextNoWorse ==
    \A u \in U : IsMember(u) /\ ~crashed =>
        LET s == rspamd_upstream_addr_next(Cur, u)
        IN  s.addrs[u][s.addrs_cur[u] + 1].errors
                <= addrs[u][addrs_cur[u] + 1].errors

\* The addresses of the elements of q, and the staging list once the reply
\* `entries` is added to it.
AddrSet(q) == {q[i].addr : i \in 1..Len(q)}
StagedWith(u, entries) ==
    [i \in 1..Len(entries) |-> entries[Len(entries) + 1 - i]] \o new_addrs[u]

\* C23: when the last reply of a resolution leaves the staging list
\* non-empty, the reconciliation gives the upstream exactly the staged
\* addresses, each with the port of the former first address; an address
\* that was there before (ports not compared) keeps an error count it had,
\* or gets 0 with reset_errors; an address that was not gets 0; and
\* addrs.cur is 0.
Reconciled ==
    \A u \in U, entries \in DnsReplies, reset_errors \in BOOLEAN :
        /\ IsMember(u) /\ ~crashed /\ dns_requests[u] = 1
        /\ Len(StagedWith(u, entries)) > 0
        => LET s == rspamd_upstream_dns_cb(Cur, u, entries, reset_errors)
               staged == StagedWith(u, entries)
               port == addrs[u][1].addr.port
               nw == s.addrs[u]
           IN  /\ AddrSet(nw) = {[staged[i] EXCEPT !.port = port] :
                                    i \in 1..Len(staged)}
               /\ s.addrs_cur[u] = 0 /\ s.new_addrs[u] = <<>>
               /\ \A i \in 1..Len(nw) :
                      LET was == {j \in 1..Len(addrs[u]) :
                                      SameAddr(addrs[u][j].addr, nw[i].addr)}
                      IN  IF was = {} \/ reset_errors THEN nw[i].errors = 0
                          ELSE nw[i].errors
                                   \in {addrs[u][j].errors : j \in was}

\* A resolution has given the upstream a second address next to the parsed
\* one, which has kept the error counted before.
ReconciledKept ==
    /\ IsMember(1) /\ dns_requests[1] = 0 /\ new_addrs[1] = <<>>
    /\ Len(addrs[1]) = 2 /\ addrs_cur[1] = 0
    /\ addrs[1][1] = [addr |-> [af |-> "inet", ip |-> 2, port |-> 25],
                      errors |-> 0]
    /\ addrs[1][2] = [addr |-> ParsedAddr, errors |-> 1]

\* q ends with p.
EndsWith(q, p) ==
    /\ Len(q) >= Len(p)
    /\ SubSeq(q, Len(q) - Len(p) + 1, Len(q)) = p

\* C24: an upstream has, as long as it exists, at most the two queries of
\* one resolution in flight; while a reply is awaited no call sends a query
\* for it; replies
\* before the last only add to the staging list, which is empty outside a
\* resolution; and the addresses are replaced only when the last reply
\* arrives, by a sequence that holds every address staged before it.
OneRoundInFlight ==
    /\ [](\A u \in U : /\ dns_requests[u] \in 0..2
                       /\ dns_requests[u] = 0 => new_addrs[u] = <<>>)
    /\ [][\A u \in U : IsMember(u) /\ refcount'[u] > 0 =>
              /\ dns_requests[u] > 0 => dns_requests'[u] <= dns_requests[u]
              /\ dns_requests'[u] > 0 =>
                     /\ EndsWith(new_addrs'[u], new_addrs[u])
                     /\ AddrSet(addrs'[u]) = AddrSet(addrs[u])
              /\ AddrSet(addrs'[u]) # AddrSet(addrs[u]) =>
                     /\ dns_requests[u] = 1 /\ dns_requests'[u] = 0
                     /\ \A i \in 1..Len(new_addrs[u]) :
                            [new_addrs[u][i] EXCEPT
                                !.port = addrs[u][1].addr.port]
                                \in AddrSet(addrs'[u])]_vars

\* The first reply of a resolution is staged and the second awaited.
RoundHalfway ==
    /\ IsMember(1) /\ dns_requests[1] = 1 /\ Len(new_addrs[1]) = 2
    /\ Len(addrs[1]) = 1

\* C25: when the last reply of a resolution brings nothing and nothing is
\* staged, rspamd_upstream_dns_cb changes nothing but the count of queries
\* in flight and the reference it held: addresses, their error counts,
\* addrs.cur, alive, errors and all the rest stay, no watcher is called and
\* nothing aborts.
EmptyRoundChangesNothing ==
    \A u \in U, reset_errors \in BOOLEAN :
        /\ IsMember(u) /\ ~crashed
        /\ dns_requests[u] = 1 /\ new_addrs[u] = <<>>
        => rspamd_upstream_dns_cb(Cur, u, <<>>, reset_errors)
               = [Cur EXCEPT !.dns_requests[u] = 0, !.refcount[u] = @ - 1]

\* An upstream with three addresses, the cursor on the third and errors
\* counted, whose resolution has had one empty reply and awaits the last.
EmptyRoundEnding ==
    /\ IsMember(1) /\ dns_requests[1] = 1 /\ new_addrs[1] = <<>>
    /\ Len(addrs[1]) = 3 /\ addrs_cur[1] = 2 /\ addrs[1][3].errors > 0
    /\ errors[1] > 0

\* C26: whenever the revive timer callback or the mass-restore callback
\* runs, the reference count of its upstream is greater than 1, so the
\* g_assert of the callback holds and its release frees nothing: a revive
\* timer fires only on an upstream with more than one reference (also when
\* the list was destroyed while the upstream was ejected), and a Get that
\* finds no upstream alive finds more than one reference in each member.
CallbacksHoldReference ==
    [][/\ last'.op = "Revive" => refcount[last'.up] > 1 /\ ~crashed'
       /\ last'.op = "Get" /\ Len(alive) = 0 =>
              \A i \in 1..Len(ups) : refcount[ups[i]] > 1]_vars

\* C27: in a context configured with an event loop and a resolver, every
\* alive upstream that is not NO_RESOLVE has its lazy-resolve timer armed,
\* in every reachable state: after AddUpstream, after the lazy timer fired,
\* after a revive and after the mass restore of a Get.
AliveHaveLazyTimer ==
    configured /\ res =>
        \A u \in U : IsAlive(u) /\ ~noresolve[u] => ev[u] = "lazy"

====
